---- MODULE Spec2Model ----
(***************************************************************************)
(* Quotation builder (src/app.py).  The Streamlit script is executed from  *)
(* top to bottom once when the page opens and once more after every widget *)
(* interaction; a run reads the widgets, computes the shared charges, and  *)
(* builds one breakdown per selected shipping mode.                        *)
(*                                                                         *)
(* Number representation.  The script computes with binary floating point. *)
(* The model enumerates dyadic inputs only: length, width and height in    *)
(* half metres, weight in eighths of a metric ton.  Volume and every       *)
(* amount are then multiples of 1/8 far below 2^53, for which floating     *)
(* point arithmetic is exact, so the integers below (volume in eighths of  *)
(* a cubic metre, money in eighths of a rupee) are the floats the script   *)
(* holds.  The sign of a floating point zero is not represented.           *)
(***************************************************************************)
EXTENDS Integers, Sequences, FiniteSets

\* ------------------------------------------------------------ fixed point
\* An integer (a count, a tariff lump sum) as a number of eighths.
Fx(n) == n * 8

\* ------------------------------------------------------------ bounds
MaxDim == 1
MaxTrailers == 2
MaxMafi == 2
MaxPersons == 1
MaxShifts == 1

\* ------------------------------------------------------------ tariff
\* dataclass Tariff with its default field values (rupees).
Tariff ==
    [ custom_clearance              |-> 20000,
      gate_mechanical               |-> 600,
      gate_hydraulic                |-> 2000,
      handling_option_1             |-> 900,
      handling_option_2             |-> 1800,
      lashing_charges               |-> 1100,
      lashing_manpower_per_mafi     |-> 3000,
      survey_per_mafi               |-> 2500,
      tug_master_per_mafi           |-> 8800,
      bbk_handling_per_cbm          |-> 175,
      bbk_survey_lumpsum            |-> 2500,
      bbk_port_permission           |-> 2500,
      bbk_security_per_shift_person |-> 850 ]

\* A run that leaves a changed tariff behind for the next one.
NewTariffKept(old) == [old EXCEPT !.gate_mechanical = old.gate_hydraulic]

\* TARIFF = Tariff() is executed by every run: whatever object the previous
\* run held, the run computes with a freshly constructed default tariff.
NewTariff(old) == Tariff

\* ------------------------------------------------------------ widgets
\* value= of the number inputs: 12.5 m, 4.0 m, 4.5 m (in half metres),
\* 30.0 MT (in eighths), and the integer inputs.
DefaultLength == 25
DefaultWidth == 8
DefaultHeight == 9
DefaultWeight == 240
DefaultTrailers == 1
DefaultMafi == 1
DefaultPersons == 1
DefaultShifts == 1

\* min_value= of the integer inputs.
MinTrailers == 1
MinMafi == 1
MinPersons == 0
MinShifts == 0

\* The float inputs carry no min_value and no max_value: any float may be
\* entered.  The model enumerates the default, zero and values of both signs.
LengthValues == ((0 - MaxDim) .. MaxDim) \cup {DefaultLength}
WidthValues == {0 - MaxDim, DefaultWidth}
HeightValues == {0, DefaultHeight}
WeightValues == {0 - Fx(MaxDim), 0, Fx(MaxDim), DefaultWeight}
TrailerValues == MinTrailers .. MaxTrailers
MafiValues == MinMafi .. MaxMafi
PersonValues == MinPersons .. MaxPersons
ShiftValues == MinShifts .. MaxShifts

MAFI == "MAFI MODE"
BBK == "BBK MODE"
ModeOptions == {MAFI, BBK}

\* The two select box options, each split into its first word and the rest.
Mechanical == <<"Mechanical", " Trailer (<50 MT & <12 m)">>
Hydraulic == <<"Hydraulic", " Axle Trailer (>50 MT & >14 m)">>
TrailerTypeOptions == {Mechanical, Hydraulic}

\* str.startswith on an option.
StartsWith(s, prefix) == s[1] = prefix

VARIABLES
    length, width, height, weight_mt, no_of_trailers, no_of_mafi,
    quote_modes, trailer_type, include_custom_clearance,
    bbk_security_persons, bbk_security_shifts,
    TARIFF,
    cbm, custom_clearance, gate_charges,
    mafi, bbk, warning,
    prev

inputs ==
    << length, width, height, weight_mt, no_of_trailers, no_of_mafi,
       quote_modes, trailer_type, include_custom_clearance,
       bbk_security_persons, bbk_security_shifts >>

outputs == << cbm, custom_clearance, gate_charges, mafi, bbk, warning >>

vars == << inputs, TARIFF, outputs, prev >>

\* A mode block that was not executed leaves nothing behind.
None == [shown |-> FALSE]

\* ------------------------------------------------------------ formatting
\* f"{x:.2f}" of a volume in eighths: hundredths, ties to even (the value is
\* exactly representable, so a tie of the decimal is a tie of the float).
Fmt2(x8) ==
    LET n == x8 * 25
        q == n \div 2
    IN  IF n % 2 = 0 THEN q
        ELSE IF q % 2 = 0 THEN q ELSE q + 1

\* ------------------------------------------------------------ common
CbmFootprint(l, w, h) == l * w

Cbm(l, w, h) == l * w * h

CustomClearance(t, icc) == IF icc THEN Fx(t.custom_clearance) ELSE 0

GateRateMechanicalOnly(t, tt) == t.gate_mechanical

GateRate(t, tt) ==
    IF StartsWith(tt, "Mechanical") THEN t.gate_mechanical ELSE t.gate_hydraulic

GateCharges(t, tt, nt) == GateRate(t, tt) * Fx(nt)

\* ------------------------------------------------------------ rows
Row(sl, desc, amount) == [sl |-> sl, desc |-> desc, amount |-> amount]

RECURSIVE SumAmounts(_)
SumAmounts(rows) ==
    IF rows = << >> THEN 0 ELSE Head(rows).amount + SumAmounts(Tail(rows))

Without(rows, labels) == SelectSeq(rows, LAMBDA r : r.sl \notin labels)

\* ------------------------------------------------------------ MAFI MODE
MafiCommonTotalNoTug(cc, gate, lashing, manpower, survey, tug) ==
    cc + gate + lashing + manpower + survey

MafiCommonTotal(cc, gate, lashing, manpower, survey, tug) ==
    cc + gate + lashing + manpower + survey + tug

MafiOptionTotalCommonOnly(common, handling) == common

MafiOptionTotal(common, handling) == common + handling

MafiRowsAlwaysClearance(icc, cc, tt, gate, h1, h2, lashing, nm, manpower, survey, tug) ==
    << Row("1", <<"Custom clearance charges">>, cc),
       Row("2", <<"Cargo gate IN/OUT", tt>>, gate),
       Row("3A", <<"Option 1 - Direct Handling (Rs 900 / MT)">>, h1),
       Row("3B", <<"Option 2 - Double Handling (Rs 1800 / MT)">>, h2),
       Row("4", <<"Lashing charges (Rs 1100 / MT)">>, lashing),
       Row("5", <<"Lashing manpower (per Mafi x", nm>>, manpower),
       Row("6", <<"Survey (per Mafi x", nm>>, survey),
       Row("7", <<"Tug master (per Mafi x", nm>>, tug) >>

MafiRows(icc, cc, tt, gate, h1, h2, lashing, nm, manpower, survey, tug) ==
    (IF icc THEN << Row("1", <<"Custom clearance charges">>, cc) >> ELSE << >>)
    \o << Row("2", <<"Cargo gate IN/OUT", tt>>, gate),
          Row("3A", <<"Option 1 - Direct Handling (Rs 900 / MT)">>, h1),
          Row("3B", <<"Option 2 - Double Handling (Rs 1800 / MT)">>, h2),
          Row("4", <<"Lashing charges (Rs 1100 / MT)">>, lashing),
          Row("5", <<"Lashing manpower (per Mafi x", nm>>, manpower),
          Row("6", <<"Survey (per Mafi x", nm>>, survey),
          Row("7", <<"Tug master (per Mafi x", nm>>, tug) >>

MafiMode(t, icc, cc, tt, gate, wt, nm) ==
    LET h1       == t.handling_option_1 * wt
        h2       == t.handling_option_2 * wt
        lashing  == t.lashing_charges * wt
        manpower == t.lashing_manpower_per_mafi * Fx(nm)
        survey   == t.survey_per_mafi * Fx(nm)
        tug      == t.tug_master_per_mafi * Fx(nm)
        common   == MafiCommonTotal(cc, gate, lashing, manpower, survey, tug)
    IN  [ shown                    |-> TRUE,
          handling_option1_charges |-> h1,
          handling_option2_charges |-> h2,
          lashing_charges          |-> lashing,
          lashing_manpower         |-> manpower,
          survey_charges           |-> survey,
          tug_master_charges       |-> tug,
          mafi_common_total        |-> common,
          mafi_option1_total       |-> MafiOptionTotal(common, h1),
          mafi_option2_total       |-> MafiOptionTotal(common, h2),
          mafi_rows                |-> MafiRows(icc, cc, tt, gate, h1, h2,
                                                lashing, nm, manpower, survey, tug) ]

\* ------------------------------------------------------------ BBK MODE
BbkSecurityDifference(t, p, s) == t.bbk_security_per_shift_person * Fx(p - s)

BbkSecurity(t, p, s) == t.bbk_security_per_shift_person * p * Fx(s)

BbkTotalNoSecurity(cc, gate, handling, survey, permission, security) ==
    cc + gate + handling + survey + permission

BbkTotal(cc, gate, handling, survey, permission, security) ==
    cc + gate + handling + survey + permission + security

BbkRows(icc, cc, tt, gate, vol, handling, survey, permission, p, s, security) ==
    (IF icc THEN << Row("1", <<"Custom clearance charges">>, cc) >> ELSE << >>)
    \o << Row("2", <<"Cargo gate IN/OUT", tt>>, gate),
          Row("3", <<"BBK handling (Rs 175 / CBM x", Fmt2(vol)>>, handling),
          Row("4", <<"Survey charges (W/M - Lumpsum)">>, survey),
          Row("5", <<"Port permission charges (one time)">>, permission),
          Row("6", <<"Security charges (Rs 850 x", p, "persons x", s, "shifts">>,
              security) >>

BbkMode(t, icc, cc, tt, gate, vol, p, s) ==
    LET handling   == t.bbk_handling_per_cbm * vol
        survey     == Fx(t.bbk_survey_lumpsum)
        permission == Fx(t.bbk_port_permission)
        security   == BbkSecurity(t, p, s)
    IN  [ shown               |-> TRUE,
          bbk_handling        |-> handling,
          bbk_survey          |-> survey,
          bbk_port_permission |-> permission,
          bbk_security        |-> security,
          bbk_total           |-> BbkTotal(cc, gate, handling, survey,
                                           permission, security),
          bbk_rows            |-> BbkRows(icc, cc, tt, gate, vol, handling, survey,
                                          permission, p, s, security) ]

\* ------------------------------------------------------------ no mode
WarningUnlessMafi(qm) == MAFI \notin qm

Warning(qm) == Cardinality(qm) = 0

\* ------------------------------------------------------------ one run
\* The values of the mode blocks and of the warning for one set of inputs.
MafiOf(t, l, w, h, wt, nt, nm, qm, tt, icc) ==
    IF MAFI \in qm
    THEN MafiMode(t, icc, CustomClearance(t, icc), tt, GateCharges(t, tt, nt), wt, nm)
    ELSE None

BbkOf(t, l, w, h, nt, qm, tt, icc, p, s) ==
    IF BBK \in qm
    THEN BbkMode(t, icc, CustomClearance(t, icc), tt, GateCharges(t, tt, nt),
                 Cbm(l, w, h), p, s)
    ELSE None

\* The security inputs exist only while BBK MODE is selected: without it the
\* script variable is 0, a widget that was rendered in the previous run keeps
\* its value, and a widget that was not starts from its default.
SecurityInput(qm, value, default) ==
    IF BBK \notin qm THEN 0
    ELSE IF BBK \in quote_modes THEN value
    ELSE default

\* A whole run of the script on the widget values given.
Run(l, w, h, wt, nt, nm, qm, tt, icc, pv, sv) ==
    LET p == SecurityInput(qm, pv, DefaultPersons)
        s == SecurityInput(qm, sv, DefaultShifts)
        t == NewTariff(TARIFF)
    IN  /\ length' = l
        /\ width' = w
        /\ height' = h
        /\ weight_mt' = wt
        /\ no_of_trailers' = nt
        /\ no_of_mafi' = nm
        /\ quote_modes' = qm
        /\ trailer_type' = tt
        /\ include_custom_clearance' = icc
        /\ bbk_security_persons' = p
        /\ bbk_security_shifts' = s
        /\ TARIFF' = t
        /\ cbm' = Cbm(l, w, h)
        /\ custom_clearance' = CustomClearance(t, icc)
        /\ gate_charges' = GateCharges(t, tt, nt)
        /\ mafi' = MafiOf(t, l, w, h, wt, nt, nm, qm, tt, icc)
        /\ bbk' = BbkOf(t, l, w, h, nt, qm, tt, icc, p, s)
        /\ warning' = Warning(qm)

\* ------------------------------------------------------------ Init
\* The first run: every widget at its default, MAFI MODE selected.
Init ==
    /\ length = DefaultLength
    /\ width = DefaultWidth
    /\ height = DefaultHeight
    /\ weight_mt = DefaultWeight
    /\ no_of_trailers = DefaultTrailers
    /\ no_of_mafi = DefaultMafi
    /\ quote_modes = {MAFI}
    /\ trailer_type = Mechanical
    /\ include_custom_clearance = TRUE
    /\ bbk_security_persons = 0
    /\ bbk_security_shifts = 0
    /\ TARIFF = Tariff
    /\ cbm = Cbm(DefaultLength, DefaultWidth, DefaultHeight)
    /\ custom_clearance = CustomClearance(Tariff, TRUE)
    /\ gate_charges = GateCharges(Tariff, Mechanical, DefaultTrailers)
    /\ mafi = MafiOf(Tariff, DefaultLength, DefaultWidth, DefaultHeight,
                     DefaultWeight, DefaultTrailers, DefaultMafi, {MAFI},
                     Mechanical, TRUE)
    /\ bbk = None
    /\ warning = Warning({MAFI})
    /\ prev = << >>

\* ------------------------------------------------------------ observer
\* prev is a history variable, no state of the script: an earlier evaluation
\* (its inputs and what it produced), and whether an evaluation of other
\* inputs has taken place since.
Track(pr, in) ==
    IF pr = << >> THEN pr ELSE [pr EXCEPT !.away = @ \/ in # pr.in]

Observe ==
    /\ prev' = [in |-> inputs, out |-> outputs, away |-> FALSE]
    /\ UNCHANGED << inputs, TARIFF, outputs >>

\* ------------------------------------------------------------ actions
\* One action for each widget: the user changes it and the script runs again.
SetLength ==
    /\ \E v \in LengthValues :
        Run(v, width, height, weight_mt, no_of_trailers, no_of_mafi, quote_modes,
            trailer_type, include_custom_clearance,
            bbk_security_persons, bbk_security_shifts)
    /\ prev' = Track(prev, inputs')

SetWidth ==
    /\ \E v \in WidthValues :
        Run(length, v, height, weight_mt, no_of_trailers, no_of_mafi, quote_modes,
            trailer_type, include_custom_clearance,
            bbk_security_persons, bbk_security_shifts)
    /\ prev' = Track(prev, inputs')

SetHeight ==
    /\ \E v \in HeightValues :
        Run(length, width, v, weight_mt, no_of_trailers, no_of_mafi, quote_modes,
            trailer_type, include_custom_clearance,
            bbk_security_persons, bbk_security_shifts)
    /\ prev' = Track(prev, inputs')

SetWeight ==
    /\ \E v \in WeightValues :
        Run(length, width, height, v, no_of_trailers, no_of_mafi, quote_modes,
            trailer_type, include_custom_clearance,
            bbk_security_persons, bbk_security_shifts)
    /\ prev' = Track(prev, inputs')

SetTrailers ==
    /\ \E v \in TrailerValues :
        Run(length, width, height, weight_mt, v, no_of_mafi, quote_modes,
            trailer_type, include_custom_clearance,
            bbk_security_persons, bbk_security_shifts)
    /\ prev' = Track(prev, inputs')

SetMafi ==
    /\ \E v \in MafiValues :
        Run(length, width, height, weight_mt, no_of_trailers, v, quote_modes,
            trailer_type, include_custom_clearance,
            bbk_security_persons, bbk_security_shifts)
    /\ prev' = Track(prev, inputs')

SetModes ==
    /\ \E v \in SUBSET ModeOptions :
        Run(length, width, height, weight_mt, no_of_trailers, no_of_mafi, v,
            trailer_type, include_custom_clearance,
            bbk_security_persons, bbk_security_shifts)
    /\ prev' = Track(prev, inputs')

SetTrailerType ==
    /\ \E v \in TrailerTypeOptions :
        Run(length, width, height, weight_mt, no_of_trailers, no_of_mafi, quote_modes,
            v, include_custom_clearance,
            bbk_security_persons, bbk_security_shifts)
    /\ prev' = Track(prev, inputs')

SetCustomClearance ==
    /\ \E v \in BOOLEAN :
        Run(length, width, height, weight_mt, no_of_trailers, no_of_mafi, quote_modes,
            trailer_type, v,
            bbk_security_persons, bbk_security_shifts)
    /\ prev' = Track(prev, inputs')

\* The security inputs are on the page only while BBK MODE is selected.
SetPersons ==
    /\ BBK \in quote_modes
    /\ \E v \in PersonValues :
        Run(length, width, height, weight_mt, no_of_trailers, no_of_mafi, quote_modes,
            trailer_type, include_custom_clearance,
            v, bbk_security_shifts)
    /\ prev' = Track(prev, inputs')

SetShifts ==
    /\ BBK \in quote_modes
    /\ \E v \in ShiftValues :
        Run(length, width, height, weight_mt, no_of_trailers, no_of_mafi, quote_modes,
            trailer_type, include_custom_clearance,
            bbk_security_persons, v)
    /\ prev' = Track(prev, inputs')

Next ==
    \/ SetLength
    \/ SetWidth
    \/ SetHeight
    \/ SetWeight
    \/ SetTrailers
    \/ SetMafi
    \/ SetModes
    \/ SetTrailerType
    \/ SetCustomClearance
    \/ SetPersons
    \/ SetShifts

Spec == Init /\ [][Next]_vars

\* The runs that the mode selection, the security inputs, the trailer type,
\* the clearance flag and the weight cause, with the observer recording one
\* of the evaluations.
NextPure ==
    \/ SetWeight
    \/ SetModes
    \/ SetTrailerType
    \/ SetCustomClearance
    \/ SetPersons
    \/ SetShifts
    \/ Observe

SpecPure == Init /\ [][NextPure]_vars

\* ------------------------------------------------------------ properties
AmountsOf(rows) == [i \in 1 .. Len(rows) |-> rows[i].amount]

\* Every input but the one named is the same before and after the step.
SameInputsBut(skip) ==
    /\ skip = "length" \/ length' = length
    /\ skip = "width" \/ width' = width
    /\ skip = "height" \/ height' = height
    /\ skip = "weight_mt" \/ weight_mt' = weight_mt
    /\ skip = "no_of_trailers" \/ no_of_trailers' = no_of_trailers
    /\ skip = "no_of_mafi" \/ no_of_mafi' = no_of_mafi
    /\ skip = "quote_modes" \/ quote_modes' = quote_modes
    /\ skip = "trailer_type" \/ trailer_type' = trailer_type
    /\ skip = "include_custom_clearance"
          \/ include_custom_clearance' = include_custom_clearance
    /\ bbk_security_persons' = bbk_security_persons
    /\ bbk_security_shifts' = bbk_security_shifts

\* C1 as stated: every total a mode shows is the sum of the amounts of all
\* the rows of that mode's table (for MAFI: both option totals equal the sum
\* over all eight, or seven, rows).
C1_TotalIsSumOfAllRows ==
    /\ mafi.shown =>
          /\ mafi.mafi_option1_total = SumAmounts(mafi.mafi_rows)
          /\ mafi.mafi_option2_total = SumAmounts(mafi.mafi_rows)
    /\ bbk.shown => bbk.bbk_total = SumAmounts(bbk.bbk_rows)

\* C1 amended: the BBK total is the sum of all BBK rows, and each MAFI option
\* total is the sum of all MAFI rows except the row of the other handling
\* option (3B for Option 1, 3A for Option 2).
C1_TotalIsSumOfItsRows ==
    /\ mafi.shown =>
          /\ mafi.mafi_option1_total = SumAmounts(Without(mafi.mafi_rows, {"3B"}))
          /\ mafi.mafi_option2_total = SumAmounts(Without(mafi.mafi_rows, {"3A"}))
    /\ bbk.shown => bbk.bbk_total = SumAmounts(bbk.bbk_rows)

C1_Witness ==
    /\ mafi.shown
    /\ bbk.shown
    /\ weight_mt > 0
    /\ cbm > 0
    /\ bbk_security_persons > 0
    /\ bbk_security_shifts > 0
    /\ mafi.mafi_option1_total # SumAmounts(mafi.mafi_rows)

\* C2: in MAFI mode, for each option k, the sum of the row amounts with rows
\* 3A and 3B left out, plus the handling charge of option k, is the Option k
\* total, whether or not the custom clearance row is present.
C2_CommonRowsPlusHandling ==
    mafi.shown =>
        LET common == SumAmounts(Without(mafi.mafi_rows, {"3A", "3B"}))
        IN  /\ Len(Without(mafi.mafi_rows, {"3A", "3B"})) = Len(mafi.mafi_rows) - 2
            /\ common + mafi.handling_option1_charges = mafi.mafi_option1_total
            /\ common + mafi.handling_option2_charges = mafi.mafi_option2_total

C2_Witness ==
    /\ mafi.shown
    /\ ~include_custom_clearance
    /\ Len(mafi.mafi_rows) = 7
    /\ weight_mt > 0
    /\ no_of_mafi > 1
    /\ mafi.mafi_option2_total > mafi.mafi_option1_total

\* C3: in BBK mode the rows are custom clearance (when included), gate charge,
\* handling, survey, port permission and security, in this order, and the BBK
\* total is the sum of their amounts.
C3_BbkTotalIsSumOfRows ==
    bbk.shown =>
        /\ AmountsOf(bbk.bbk_rows) =
              (IF include_custom_clearance THEN << custom_clearance >> ELSE << >>)
              \o << gate_charges, bbk.bbk_handling, bbk.bbk_survey,
                    bbk.bbk_port_permission, bbk.bbk_security >>
        /\ bbk.bbk_total = SumAmounts(bbk.bbk_rows)

C3_Witness ==
    /\ bbk.shown
    /\ ~include_custom_clearance
    /\ Len(bbk.bbk_rows) = 5
    /\ cbm > 0
    /\ bbk.bbk_security > 0

\* What C4 says of a pair of evaluations, on with the flag set and off without.
ClearanceRelation(t, mOn, bOn, mOff, bOff) ==
    /\ mOn.shown = mOff.shown
    /\ bOn.shown = bOff.shown
    /\ mOn.shown =>
          /\ Len(mOff.mafi_rows) = Len(mOn.mafi_rows) - 1
          /\ mOn.mafi_rows[1].sl = "1"
          /\ mOn.mafi_rows[1].amount = Fx(t.custom_clearance)
          /\ mOff.mafi_rows = Tail(mOn.mafi_rows)
          /\ mOff.mafi_option1_total = mOn.mafi_option1_total - Fx(t.custom_clearance)
          /\ mOff.mafi_option2_total = mOn.mafi_option2_total - Fx(t.custom_clearance)
    /\ bOn.shown =>
          /\ Len(bOff.bbk_rows) = Len(bOn.bbk_rows) - 1
          /\ bOn.bbk_rows[1].sl = "1"
          /\ bOn.bbk_rows[1].amount = Fx(t.custom_clearance)
          /\ bOff.bbk_rows = Tail(bOn.bbk_rows)
          /\ bOff.bbk_total = bOn.bbk_total - Fx(t.custom_clearance)

\* C4: of two consecutive evaluations whose inputs differ only in the
\* include-custom-clearance flag, the one without the flag lists the rows of
\* the other minus the custom clearance row, every other row unchanged, and
\* each of its totals is lower by exactly the tariff's custom clearance.
C4_ClearanceToggle ==
    [][ (SameInputsBut("include_custom_clearance")
           /\ include_custom_clearance' # include_custom_clearance)
        => IF include_custom_clearance
           THEN ClearanceRelation(TARIFF, mafi, bbk, mafi', bbk')
           ELSE ClearanceRelation(TARIFF, mafi', bbk', mafi, bbk) ]_vars

C4_Witness ==
    /\ ~include_custom_clearance
    /\ mafi.shown
    /\ bbk.shown
    /\ Len(mafi.mafi_rows) = 7
    /\ Len(bbk.bbk_rows) = 5
    /\ mafi.mafi_rows[1].sl = "2"
    /\ custom_clearance = 0

\* C5: the warning is raised exactly when no mode is selected, and a
\* breakdown exists for exactly the selected modes.
C5_WarningIffNoMode ==
    /\ warning <=> quote_modes = {}
    /\ mafi.shown <=> MAFI \in quote_modes
    /\ bbk.shown <=> BBK \in quote_modes

C5_Witness ==
    /\ quote_modes = {}
    /\ warning
    /\ ~mafi.shown
    /\ ~bbk.shown

\* C6: the inputs a run computes with are valid: length, width, height and
\* weight are not negative, the trailer and mafi counts are at least 1, the
\* security persons and shifts are not negative.
C6_InputsValid ==
    /\ length >= 0
    /\ width >= 0
    /\ height >= 0
    /\ weight_mt >= 0
    /\ no_of_trailers >= 1
    /\ no_of_mafi >= 1
    /\ bbk_security_persons >= 0
    /\ bbk_security_shifts >= 0

\* What C7 says of the amounts of a pair of evaluations.
GateOnlyRelation(g, cc, m, b, g2, cc2, m2, b2) ==
    /\ cc2 = cc
    /\ m2.shown = m.shown
    /\ b2.shown = b.shown
    /\ m.shown =>
          /\ m2.handling_option1_charges = m.handling_option1_charges
          /\ m2.handling_option2_charges = m.handling_option2_charges
          /\ m2.lashing_charges = m.lashing_charges
          /\ m2.lashing_manpower = m.lashing_manpower
          /\ m2.survey_charges = m.survey_charges
          /\ m2.tug_master_charges = m.tug_master_charges
          /\ [i \in 1 .. Len(m2.mafi_rows) |->
                 IF m2.mafi_rows[i].sl = "2" THEN 0 ELSE m2.mafi_rows[i].amount]
             = [i \in 1 .. Len(m.mafi_rows) |->
                 IF m.mafi_rows[i].sl = "2" THEN 0 ELSE m.mafi_rows[i].amount]
          /\ m2.mafi_common_total - m.mafi_common_total = g2 - g
          /\ m2.mafi_option1_total - m.mafi_option1_total = g2 - g
          /\ m2.mafi_option2_total - m.mafi_option2_total = g2 - g
    /\ b.shown =>
          /\ b2.bbk_handling = b.bbk_handling
          /\ b2.bbk_survey = b.bbk_survey
          /\ b2.bbk_port_permission = b.bbk_port_permission
          /\ b2.bbk_security = b.bbk_security
          /\ [i \in 1 .. Len(b2.bbk_rows) |->
                 IF b2.bbk_rows[i].sl = "2" THEN 0 ELSE b2.bbk_rows[i].amount]
             = [i \in 1 .. Len(b.bbk_rows) |->
                 IF b.bbk_rows[i].sl = "2" THEN 0 ELSE b.bbk_rows[i].amount]
          /\ b2.bbk_total - b.bbk_total = g2 - g

\* The gate charge C7 names for a trailer type.
GateChargeFor(tt, nt) ==
    IF tt = Mechanical THEN Tariff.gate_mechanical * Fx(nt)
    ELSE Tariff.gate_hydraulic * Fx(nt)

\* C7: of two consecutive evaluations whose inputs differ only in the trailer
\* type, each has the gate charge of its type (mechanical or hydraulic rate
\* times the trailer count), every other amount is the same in both, and each
\* total differs by exactly the difference of the two gate charges.
C7_TrailerTypeChange ==
    [][ (SameInputsBut("trailer_type") /\ trailer_type' # trailer_type)
        => /\ gate_charges = GateChargeFor(trailer_type, no_of_trailers)
           /\ gate_charges' = GateChargeFor(trailer_type', no_of_trailers')
           /\ gate_charges' # gate_charges
           /\ GateOnlyRelation(gate_charges, custom_clearance, mafi, bbk,
                               gate_charges', custom_clearance', mafi', bbk') ]_vars

C7_Witness ==
    /\ trailer_type = Hydraulic
    /\ no_of_trailers > 1
    /\ gate_charges = Tariff.gate_hydraulic * Fx(no_of_trailers)
    /\ mafi.shown
    /\ bbk.shown

AllNonNegative(amounts) == \A i \in 1 .. Len(amounts) : amounts[i] >= 0

\* C8: when length, width, height, weight, the counts and the security
\* inputs are not negative, no amount and no total of a selected mode is
\* negative.
C8_NonNegativeAmounts ==
    (/\ length >= 0
     /\ width >= 0
     /\ height >= 0
     /\ weight_mt >= 0
     /\ no_of_trailers >= 0
     /\ no_of_mafi >= 0
     /\ bbk_security_persons >= 0
     /\ bbk_security_shifts >= 0)
    => /\ gate_charges >= 0
       /\ custom_clearance >= 0
       /\ mafi.shown =>
             /\ AllNonNegative(AmountsOf(mafi.mafi_rows))
             /\ mafi.handling_option1_charges >= 0
             /\ mafi.handling_option2_charges >= 0
             /\ mafi.lashing_charges >= 0
             /\ mafi.lashing_manpower >= 0
             /\ mafi.survey_charges >= 0
             /\ mafi.tug_master_charges >= 0
             /\ mafi.mafi_common_total >= 0
             /\ mafi.mafi_option1_total >= 0
             /\ mafi.mafi_option2_total >= 0
       /\ bbk.shown =>
             /\ AllNonNegative(AmountsOf(bbk.bbk_rows))
             /\ bbk.bbk_handling >= 0
             /\ bbk.bbk_security >= 0
             /\ bbk.bbk_total >= 0

C8_Witness ==
    /\ length > 0
    /\ width > 0
    /\ height > 0
    /\ weight_mt > 0
    /\ bbk_security_persons = 0
    /\ bbk_security_shifts > 0
    /\ mafi.shown
    /\ bbk.shown
    /\ bbk.bbk_security = 0
    /\ bbk.bbk_total > 0

\* C9: the worked example.  12.5 m x 4.0 m x 4.5 m (25, 8 and 9 half metres),
\* 30 MT (240 eighths), one trailer, one mafi, mechanical trailer, clearance
\* included: the volume is 225; in MAFI mode the common total is 67900 and
\* the option totals are 94900 and 121900; in BBK mode with one person and
\* one shift the handling charge is 39375 and the total is 65825.
C9_WorkedExample ==
    (/\ length = 25
     /\ width = 8
     /\ height = 9
     /\ weight_mt = 240
     /\ no_of_trailers = 1
     /\ no_of_mafi = 1
     /\ trailer_type = Mechanical
     /\ include_custom_clearance)
    => /\ cbm = Fx(225)
       /\ mafi.shown =>
             /\ mafi.mafi_common_total = Fx(67900)
             /\ mafi.mafi_option1_total = Fx(94900)
             /\ mafi.mafi_option2_total = Fx(121900)
       /\ (bbk.shown /\ bbk_security_persons = 1 /\ bbk_security_shifts = 1) =>
             /\ bbk.bbk_handling = Fx(39375)
             /\ bbk.bbk_total = Fx(65825)

C9_Witness ==
    /\ length = 25
    /\ width = 8
    /\ height = 9
    /\ weight_mt = 240
    /\ no_of_trailers = 1
    /\ no_of_mafi = 1
    /\ trailer_type = Mechanical
    /\ include_custom_clearance
    /\ mafi.shown
    /\ bbk.shown
    /\ bbk_security_persons = 1
    /\ bbk_security_shifts = 1
    /\ bbk.bbk_total = Fx(65825)

\* C10: the tariff a run leaves behind is the default tariff, and an
\* evaluation of the inputs of an earlier evaluation produces what the
\* earlier one produced, whatever was evaluated in between.
C10_PureFunctionOfInputs ==
    /\ TARIFF = Tariff
    /\ (prev # << >> /\ prev.in = inputs) => prev.out = outputs

C10_Witness ==
    /\ prev # << >>
    /\ prev.away
    /\ prev.in = inputs
    /\ BBK \in quote_modes
    /\ bbk_security_persons = 0
    /\ ~include_custom_clearance

====
